---- MODULE Spec2Model ----
(***************************************************************************)
(* Model of the ride simulation: the per-vehicle ride task machine         *)
(* (src/src/vehicle/mod.rs) and the tick loop, dispatcher and scoring of   *)
(* JobScheduler (src/src/scheduler/mod.rs).                                *)
(***************************************************************************)
EXTENDS Integers, Sequences, FiniteSets, TLC

\* ---------------------------------------------------------------- bounds
MaxVehicles == 2    \* fleets of 1..MaxVehicles vehicles
MaxJobs == 2        \* inputs of 1..MaxJobs job records
MaxTicks == 5       \* max_tsteps in 2..MaxTicks

VARIABLES
    num_vehicles,   \* JobScheduler.num_vehicles
    ride_bonus,     \* JobScheduler.ride_bonus
    max_tsteps,     \* JobScheduler.max_tsteps
    jobs,           \* JobScheduler.jobs: job id -> Job
    current_step,   \* JobScheduler.current_step
    fleet,          \* JobScheduler.fleet: vehicle id -> Vehicle
    rem_jobs,       \* JobScheduler.rem_jobs: pending job ids, in scan order
    job_scores,     \* JobScheduler.job_scores: job id -> signed score
    idle_vehicles,  \* the KdTree built by tick_vehicles: entries in insertion order
    relax_start,    \* funky_scheduling local
    relax_end,      \* funky_scheduling local
    next_v,         \* position of tick_vehicles' iteration over the fleet
    pc,             \* "sim_loop" | "tick_vehicles" | "funky_scheduling" | "done" | "panic"
    queued,         \* observer: vehicle id -> job ids passed to queue_new_job, in order
    assigned_at,    \* observer: job id -> how the dispatcher assigned it
    depart_tick,    \* observer: job id -> tick its DrivingToEnd task was created
    arrive_tick,    \* observer: job id -> tick its DrivingToEnd task ran out
    start_events,   \* observer: job id -> ticks on which JobStart was handled
    complete_events \* observer: job id -> ticks on which JobComplete was handled

vars == <<num_vehicles, ride_bonus, max_tsteps, jobs, current_step, fleet, rem_jobs,
          job_scores, idle_vehicles, relax_start, relax_end, next_v, pc,
          queued, assigned_at, depart_tick, arrive_tick, start_events, complete_events>>

\* ------------------------------------------------------------ util.rs
abs(n) == IF n < 0 THEN -n ELSE n

Coord(x, y) == [x |-> x, y |-> y]

Coord_default == Coord(0, 0)

manhattan_dist(a, b) == abs(a.x - b.x) + abs(a.y - b.y)

\* ------------------------------------------------- scheduler: Job
Job(start, end, early, late) ==
    [start |-> start, end |-> end, earliest_start |-> early, latest_end |-> late]

Job_dist(j) == manhattan_dist(j.start, j.end)

NoJob == -1     \* Option::None of job_buffer
NoPos == [x |-> -1, y |-> -1]   \* Option::None of current_pos (in transit)
NoTick == 0 - 1 \* observer value: has not happened

Last(s) == s[Len(s)]

\* ------------------------------------------------------ vehicle: RideTask
RideTask(t, s) == [task_type |-> t, rem_steps |-> s]

\* is_idle that is one step early
RideTask_is_idle_early(t) == t.rem_steps <= 1

RideTask_is_idle(t) == t.rem_steps = 0

\* step that does not count down
RideTask_step_stalls(t) == t

\* RideTask::step: one tick of travel or waiting
RideTask_step(t) == [t EXCEPT !.rem_steps = @ - 1]

has_arrived_at_start(t) == t.task_type = "DrivingToStart" /\ RideTask_is_idle(t)

is_done_waiting(t) == t.task_type = "WaitingAtStart" /\ RideTask_is_idle(t)

has_arrived_at_dest(t) == t.task_type = "DrivingToEnd" /\ RideTask_is_idle(t)

\* ------------------------------------------------------ vehicle: Vehicle
Vehicle_new == [jobs |-> <<>>, ride_tasks |-> <<>>, job_buffer |-> NoJob]

\* the vehicle's fixed position, NoPos while in transit
current_pos(veh) ==
    IF Len(veh.ride_tasks) = 0 THEN Coord_default
    ELSE LET t == Last(veh.ride_tasks) IN
         IF RideTask_is_idle(t)
         THEN IF t.task_type \in {"DrivingToStart", "WaitingAtStart"}
              THEN jobs[Last(veh.jobs)].start
              ELSE jobs[Last(veh.jobs)].end
         ELSE NoPos

\* is_idle that does not look at the buffer
is_idle_ignores_buffer(veh) ==
    Len(veh.ride_tasks) = 0 \/ has_arrived_at_dest(Last(veh.ride_tasks))

is_idle(veh) ==
    /\ veh.job_buffer = NoJob
    /\ (Len(veh.ride_tasks) = 0 \/ has_arrived_at_dest(Last(veh.ride_tasks)))

\* add_job_task that never waits for earliest_start
add_job_task_no_wait(veh, job_start, job_end, job_earliest_start, step) ==
    LET cur_pos == current_pos(veh)
        dist_to_end == manhattan_dist(cur_pos, job_end)
        dist_to_start == manhattan_dist(cur_pos, job_start)
    IN  IF dist_to_start > 0 THEN RideTask("DrivingToStart", dist_to_start)
        ELSE RideTask("DrivingToEnd", dist_to_end)

\* the task add_job_task pushes for a job, seen from the vehicle's position
add_job_task(veh, job_start, job_end, job_earliest_start, step) ==
    LET cur_pos == current_pos(veh)
        dist_to_end == manhattan_dist(cur_pos, job_end)
        dist_to_start == manhattan_dist(cur_pos, job_start)
    IN  IF dist_to_start > 0 THEN RideTask("DrivingToStart", dist_to_start)
        ELSE IF step >= job_earliest_start THEN RideTask("DrivingToEnd", dist_to_end)
        ELSE RideTask("WaitingAtStart", job_earliest_start - step)

\* queue_new_job that forgets the job
queue_new_job_drops(veh, j) == veh

\* queue_new_job: the buffer takes the job
queue_new_job(veh, j) == [veh EXCEPT !.job_buffer = j]

\* tick, first part: the buffered job, if any, becomes the current job
load_buffer(veh, step) ==
    IF veh.job_buffer # NoJob
    THEN LET j == jobs[veh.job_buffer] IN
         [veh EXCEPT !.ride_tasks = Append(@, add_job_task(veh, j.start, j.end,
                                                          j.earliest_start, step)),
                     !.jobs = Append(@, veh.job_buffer),
                     !.job_buffer = NoJob]
    ELSE veh

\* tick, second part: the current task advances; the event it raises
step_task(veh) ==
    LET n == Len(veh.ride_tasks)
        t == veh.ride_tasks[n]
    IN  IF RideTask_is_idle(t) THEN [veh |-> veh, out |-> "Continue"]
        ELSE LET t2 == RideTask_step(t) IN
             [veh |-> [veh EXCEPT !.ride_tasks[n] = t2],
              out |-> IF ~RideTask_is_idle(t2) THEN "Continue"
                      ELSE IF has_arrived_at_start(t2) THEN "Continue"
                      ELSE IF is_done_waiting(t2) THEN "JobStart"
                      ELSE IF has_arrived_at_dest(t2) THEN "JobComplete"
                      ELSE "Panic"]

\* tick, third part: a task that ran out at the start point is followed at once
pass_through(r, step) ==
    LET veh == r.veh
        t == Last(veh.ride_tasks)
    IN  IF RideTask_is_idle(t) /\ ~has_arrived_at_dest(t)
        THEN LET j == jobs[Last(veh.jobs)]
                 nt == add_job_task(veh, j.start, j.end, j.earliest_start, step)
             IN  [veh |-> [veh EXCEPT !.ride_tasks = Append(@, nt)],
                  out |-> IF nt.task_type = "DrivingToEnd" THEN "JobStart" ELSE r.out]
        ELSE r

\* Vehicle::tick: the vehicle after the tick and the event it returns;
\* "Panic" when assert!(self.ride_tasks.len() > 0) fails or unreachable!() is met
tick(veh, step) ==
    LET loaded == load_buffer(veh, step) IN
    IF Len(loaded.ride_tasks) = 0 THEN [veh |-> loaded, out |-> "Panic"]
    ELSE pass_through(step_task(loaded), step)

assigned_rides(veh) == veh.jobs

\* ------------------------------------------------------ scheduler: inputs
\* job records the bounded inputs are made of: <<start, end, earliest, latest>>
InputJobs ==
    { Job(Coord(0, 0), Coord(1, 0), 0, 5),    \* starts where the fleet stands
      Job(Coord(0, 0), Coord(1, 0), 0, 2),    \* the same, too late to finish
      Job(Coord(1, 0), Coord(0, 0), 0, 1),    \* window already missed
      Job(Coord(1, 0), Coord(1, 1), 3, 6),    \* reachable before earliest_start
      Job(Coord(0, 0), Coord(1, 1), 3, 5),    \* at the origin, not yet startable
      Job(Coord(1, 1), Coord(1, 0), 2, 9),    \* start reached after earliest_start
      Job(Coord(0, 0), Coord(0, 0), 0, 4),    \* start = end
      Job(Coord(0, 0), Coord(1, 0), 3, 4) }   \* window as long as the ride

Bonuses == {0, 2}

\* the a_example data set of tests/mod.rs
ExampleJobs ==
    << Job(Coord(0, 0), Coord(1, 3), 2, 9),
       Job(Coord(1, 2), Coord(1, 0), 0, 9),
       Job(Coord(2, 0), Coord(2, 2), 0, 9) >>

\* an input on which two vehicles finish at different places in the same tick
\* while two jobs are pending, the first of them already too late
TwoPlacesJobs ==
    << Job(Coord(0, 0), Coord(1, 0), 0, 5),
       Job(Coord(0, 0), Coord(0, 1), 0, 5),
       Job(Coord(2, 0), Coord(2, 1), 0, 1),
       Job(Coord(2, 0), Coord(2, 1), 0, 9) >>

RECURSIVE SeqsUpTo(_, _)
SeqsUpTo(S, n) ==
    IF n = 0 THEN {<<>>}
    ELSE LET shorter == SeqsUpTo(S, n - 1) IN
         shorter \cup {Append(q, x) : q \in {r \in shorter : Len(r) = n - 1}, x \in S}

\* JobScheduler::new, lines 147-163: ids are the 0-based order of the records
jobs_of(recs) == [i \in 0..(Len(recs) - 1) |-> recs[i + 1]]

\* the comparator of rem_jobs.sort_by: earliest_start, then id
sort_less(js, a, b) ==
    \/ js[a].earliest_start < js[b].earliest_start
    \/ (js[a].earliest_start = js[b].earliest_start /\ a < b)

\* rem_jobs.sort_by(...) applied to the ids in S
RECURSIVE sorted_ids(_, _)
sorted_ids(js, S) ==
    IF S = {} THEN <<>>
    ELSE LET m == CHOOSE a \in S : \A b \in S \ {a} : sort_less(js, a, b)
         IN  <<m>> \o sorted_ids(js, S \ {m})

\* the state JobScheduler::new leaves for the records recs
InitWith(recs, nv, bonus, ticks) ==
    /\ num_vehicles = nv
    /\ ride_bonus = bonus
    /\ max_tsteps = ticks
    /\ jobs = jobs_of(recs)
    /\ current_step = 0
    /\ fleet = [v \in 0..(nv - 1) |-> Vehicle_new]
    /\ rem_jobs = sorted_ids(jobs_of(recs), 0..(Len(recs) - 1))
    /\ job_scores = [j \in 0..(Len(recs) - 1) |-> 0]
    /\ idle_vehicles = <<>>
    /\ relax_start = FALSE
    /\ relax_end = FALSE
    /\ next_v = 0
    /\ pc = "sim_loop"
    /\ queued = [v \in 0..(nv - 1) |-> <<>>]
    /\ assigned_at = [j \in 0..(Len(recs) - 1) |-> [tick |-> NoTick]]
    /\ depart_tick = [j \in 0..(Len(recs) - 1) |-> NoTick]
    /\ arrive_tick = [j \in 0..(Len(recs) - 1) |-> NoTick]
    /\ start_events = [j \in 0..(Len(recs) - 1) |-> {}]
    /\ complete_events = [j \in 0..(Len(recs) - 1) |-> {}]

IsExample == jobs = jobs_of(ExampleJobs) /\ num_vehicles = 2 /\ ride_bonus = 2 /\ max_tsteps = 10

Init ==
    \/ InitWith(ExampleJobs, 2, 2, 10)
    \/ InitWith(TwoPlacesJobs, 2, 2, 4)
    \/ \E recs \in SeqsUpTo(InputJobs, MaxJobs) \ {<<>>}, nv \in 1..MaxVehicles,
          bonus \in Bonuses, ticks \in 2..MaxTicks :
          InitWith(recs, nv, bonus, ticks)

\* ------------------------------------------------------ scheduler: run
\* run's loop head: the next tick begins
SimLoopStep ==
    /\ pc = "sim_loop"
    /\ current_step + 1 < max_tsteps
    /\ current_step' = current_step + 1
    /\ idle_vehicles' = <<>>
    /\ next_v' = 0
    /\ pc' = "tick_vehicles"
    /\ UNCHANGED <<num_vehicles, ride_bonus, max_tsteps, jobs, fleet, rem_jobs,
                   job_scores, relax_start, relax_end, queued, assigned_at,
                   depart_tick, arrive_tick, start_events, complete_events>>

\* run's loop is exhausted: step has gone through 1..max_tsteps-1
SimLoopEnd ==
    /\ pc = "sim_loop"
    /\ ~(current_step + 1 < max_tsteps)
    /\ pc' = "done"
    /\ UNCHANGED <<num_vehicles, ride_bonus, max_tsteps, jobs, current_step, fleet,
                   rem_jobs, job_scores, idle_vehicles, relax_start, relax_end, next_v,
                   queued, assigned_at, depart_tick, arrive_tick, start_events,
                   complete_events>>

\* ------------------------------------------------------ scheduler: tick_vehicles
\* the score saved on JobStart
start_score(j, step) ==
    -(Job_dist(jobs[j]) + ride_bonus * (IF step = jobs[j].earliest_start THEN 1 ELSE 0))

\* job_scores after the event out of the vehicle whose current job is j
scores_after(scores, out, j, step) ==
    IF out = "JobStart" THEN [scores EXCEPT ![j] = start_score(j, step)]
    ELSE IF out = "JobComplete" /\ step < jobs[j].latest_end
         THEN [scores EXCEPT ![j] = -scores[j]]
    ELSE scores

\* the tree after the event out of vehicle v
tree_after(tree, out, v, j) ==
    IF out = "JobComplete" THEN Append(tree, [v |-> v, coord |-> jobs[j].end])
    ELSE tree

\* observers of a tick that turned vehicle old into new
entered_end(old, new) ==
    \E i \in (Len(old.ride_tasks) + 1)..Len(new.ride_tasks) :
        new.ride_tasks[i].task_type = "DrivingToEnd"

reached_end(old, new) ==
    /\ Len(new.ride_tasks) > 0
    /\ Last(new.ride_tasks).task_type = "DrivingToEnd"
    /\ Last(new.ride_tasks).rem_steps = 0
    /\ \/ Len(new.ride_tasks) > Len(old.ride_tasks)
       \/ Last(old.ride_tasks).rem_steps # 0

\* tick_vehicles, one vehicle of the first tick: no tick, straight into the tree
TickFirst ==
    /\ pc = "tick_vehicles"
    /\ next_v < num_vehicles
    /\ current_step = 1
    /\ idle_vehicles' = Append(idle_vehicles,
                               [v |-> next_v, coord |-> current_pos(fleet[next_v])])
    /\ next_v' = next_v + 1
    /\ UNCHANGED <<num_vehicles, ride_bonus, max_tsteps, jobs, current_step, fleet,
                   rem_jobs, job_scores, relax_start, relax_end, pc, queued,
                   assigned_at, depart_tick, arrive_tick, start_events, complete_events>>

\* tick_vehicles, one vehicle of a later tick: Vehicle::tick and its event
TickVehicle ==
    /\ pc = "tick_vehicles"
    /\ next_v < num_vehicles
    /\ current_step # 1
    /\ LET r == tick(fleet[next_v], current_step) IN
       /\ r.out # "Panic"
       /\ LET j == Last(r.veh.jobs) IN
          /\ fleet' = [fleet EXCEPT ![next_v] = r.veh]
          /\ job_scores' = scores_after(job_scores, r.out, j, current_step)
          /\ idle_vehicles' = tree_after(idle_vehicles, r.out, next_v, j)
          /\ depart_tick' = IF entered_end(fleet[next_v], r.veh)
                            THEN [depart_tick EXCEPT ![j] = current_step]
                            ELSE depart_tick
          /\ arrive_tick' = IF reached_end(fleet[next_v], r.veh)
                            THEN [arrive_tick EXCEPT ![j] = current_step]
                            ELSE arrive_tick
          /\ start_events' = IF r.out = "JobStart"
                             THEN [start_events EXCEPT ![j] = @ \cup {current_step}]
                             ELSE start_events
          /\ complete_events' = IF r.out = "JobComplete"
                                THEN [complete_events EXCEPT ![j] = @ \cup {current_step}]
                                ELSE complete_events
    /\ next_v' = next_v + 1
    /\ UNCHANGED <<num_vehicles, ride_bonus, max_tsteps, jobs, current_step, rem_jobs,
                   relax_start, relax_end, pc, queued, assigned_at>>

\* tick_vehicles, one vehicle of a later tick: Vehicle::tick's assertion fails
TickPanic ==
    /\ pc = "tick_vehicles"
    /\ next_v < num_vehicles
    /\ current_step # 1
    /\ tick(fleet[next_v], current_step).out = "Panic"
    /\ pc' = "panic"
    /\ UNCHANGED <<num_vehicles, ride_bonus, max_tsteps, jobs, current_step, fleet,
                   rem_jobs, job_scores, idle_vehicles, relax_start, relax_end, next_v,
                   queued, assigned_at, depart_tick, arrive_tick, start_events,
                   complete_events>>

\* tick_vehicles returns the tree; funky_scheduling is entered
EnterScheduling ==
    /\ pc = "tick_vehicles"
    /\ next_v = num_vehicles
    /\ relax_start' = FALSE
    /\ relax_end' = FALSE
    /\ pc' = IF Len(idle_vehicles) > 0 THEN "funky_scheduling" ELSE "sim_loop"
    /\ UNCHANGED <<num_vehicles, ride_bonus, max_tsteps, jobs, current_step, fleet,
                   rem_jobs, job_scores, idle_vehicles, next_v, queued, assigned_at,
                   depart_tick, arrive_tick, start_events, complete_events>>

\* ------------------------------------------------------ scheduler: funky_scheduling
\* vehicles of the tree for which is_idle() holds: the candidates of a scan
tree_idle == {i \in 1..Len(idle_vehicles) : is_idle(fleet[idle_vehicles[i].v])}

\* lines 305-307
dist_to_start(v, j) == manhattan_dist(current_pos(fleet[v]), jobs[j].start)

tot_dist(v, j) == dist_to_start(v, j) + Job_dist(jobs[j])

\* the test of lines 309-310 with relax_end left out
feasible_no_relax_end(v, j, rs, re) ==
    /\ current_step + tot_dist(v, j) < jobs[j].latest_end
    /\ (rs \/ current_step + dist_to_start(v, j) < jobs[j].earliest_start)

\* the test of lines 309-310 with <= in the finish comparison
feasible_finish_le(v, j, rs, re) ==
    /\ (re \/ current_step + tot_dist(v, j) <= jobs[j].latest_end)
    /\ (rs \/ current_step + dist_to_start(v, j) < jobs[j].earliest_start)

\* the test of lines 309-310 with the start comparison turned around
feasible_start_reversed(v, j, rs, re) ==
    /\ (re \/ current_step + tot_dist(v, j) < jobs[j].latest_end)
    /\ (rs \/ current_step + dist_to_start(v, j) > jobs[j].earliest_start)

\* the test of lines 309-310 with relax_start left out
feasible_no_relax_start(v, j, rs, re) ==
    /\ (re \/ current_step + tot_dist(v, j) < jobs[j].latest_end)
    /\ current_step + dist_to_start(v, j) < jobs[j].earliest_start

\* lines 309-310: the test a candidate has to pass under the flags rs, re
feasible(v, j, rs, re) ==
    /\ (re \/ current_step + tot_dist(v, j) < jobs[j].latest_end)
    /\ (rs \/ current_step + dist_to_start(v, j) < jobs[j].earliest_start)

\* the metric iter_nearest orders the tree by (dist_measure, lines 287-291)
tree_dist(i, j) == manhattan_dist(idle_vehicles[i].coord, jobs[j].start)

\* nearest_loop for job j: the vehicles the loop can stop at. It walks the tree in
\* non-decreasing tree_dist and stops at the first idle, feasible one; the order of
\* entries at equal distance is the index's own, so each of them can come first.
nearest_hits(j, rs, re) ==
    LET ok == {i \in tree_idle : feasible(idle_vehicles[i].v, j, rs, re)} IN
    {idle_vehicles[i].v : i \in {k \in ok : \A m \in ok : tree_dist(k, j) <= tree_dist(m, j)}}

\* job_loop: the positions of rem_jobs at which nearest_loop finds a vehicle
job_hits(rs, re) == {idx \in 1..Len(rem_jobs) : nearest_hits(rem_jobs[idx], rs, re) # {}}

\* job_loop that goes on after a hit: the last hit wins
Min_last(S) == CHOOSE a \in S : \A b \in S : a >= b

Min(S) == CHOOSE a \in S : \A b \in S : a <= b

\* Vec::remove that leaves the element in place
remove_at_keeps(q, idx) == q

\* Vec::remove
remove_at(q, idx) == SubSeq(q, 1, idx - 1) \o SubSeq(q, idx + 1, Len(q))

\* a pass that gives up after the first scan without assignment
candidates_empty_hasty == TRUE

\* candidates.is_empty() after a scan without assignment
candidates_empty == rem_jobs = <<>> \/ tree_idle = {}

\* one iteration of assign_loop: a full scan of rem_jobs, then assignment,
\* relaxation, unreachable!() or the end of the pass
FunkyScan ==
    /\ pc = "funky_scheduling"
    /\ LET hits == job_hits(relax_start, relax_end) IN
       IF hits # {}
       THEN LET idx == Min(hits)
                j == rem_jobs[idx]
            IN  \E v \in nearest_hits(j, relax_start, relax_end) :
                   /\ fleet' = [fleet EXCEPT ![v] = queue_new_job(fleet[v], j)]
                   /\ rem_jobs' = remove_at(rem_jobs, idx)
                   /\ relax_start' = FALSE
                   /\ relax_end' = FALSE
                   /\ queued' = [queued EXCEPT ![v] = Append(@, j)]
                   /\ assigned_at' = [assigned_at EXCEPT ![j] =
                          [tick |-> current_step, v |-> v,
                           relax_start |-> relax_start, relax_end |-> relax_end,
                           dist |-> dist_to_start(v, j)]]
                   /\ pc' = pc
       ELSE IF ~candidates_empty
       THEN /\ relax_start' = TRUE
            /\ relax_end' = relax_start
            /\ pc' = IF relax_start /\ relax_end THEN "panic" ELSE pc
            /\ UNCHANGED <<fleet, rem_jobs, queued, assigned_at>>
       ELSE /\ pc' = "sim_loop"
            /\ relax_start' = FALSE
            /\ relax_end' = FALSE
            /\ UNCHANGED <<fleet, rem_jobs, queued, assigned_at>>
    /\ UNCHANGED <<num_vehicles, ride_bonus, max_tsteps, jobs, current_step, job_scores,
                   idle_vehicles, next_v, depart_tick, arrive_tick, start_events,
                   complete_events>>

Next ==
    \/ SimLoopStep
    \/ SimLoopEnd
    \/ TickFirst
    \/ TickVehicle
    \/ TickPanic
    \/ EnterScheduling
    \/ FunkyScan

Spec == Init /\ [][Next]_vars

\* ------------------------------------------------------ scheduler: output, score
\* the fold of output_as_str over a vehicle's rides: " " + id for each
RECURSIVE rides_str(_)
rides_str(rides) ==
    IF rides = <<>> THEN ""
    ELSE rides_str(SubSeq(rides, 1, Len(rides) - 1)) \o " " \o ToString(Last(rides))

\* one line of output_as_str
vehicle_line(veh) ==
    ToString(Len(assigned_rides(veh))) \o rides_str(assigned_rides(veh)) \o "\n"

RECURSIVE lines_upto(_)
lines_upto(n) == IF n = 0 THEN "" ELSE lines_upto(n - 1) \o vehicle_line(fleet[n - 1])

output_as_str == lines_upto(num_vehicles)

RECURSIVE sum_positive(_, _)
sum_positive(scores, S) ==
    IF S = {} THEN 0
    ELSE LET j == CHOOSE x \in S : TRUE IN
         (IF scores[j] > 0 THEN scores[j] ELSE 0) + sum_positive(scores, S \ {j})

calculate_score == sum_positive(job_scores, DOMAIN job_scores)


\* ------------------------------------------------------ properties
halted == pc \in {"done", "panic"}

was_assigned(j) == assigned_at[j].tick # NoTick

\* number of positions of sequence q that hold x
occurrences(q, x) == Cardinality({i \in 1..Len(q) : q[i] = x})

RECURSIVE sum_over(_, _)
sum_over(f, S) ==
    IF S = {} THEN 0
    ELSE LET x == CHOOSE y \in S : TRUE IN f[x] + sum_over(f, S \ {x})

\* times job j appears in the histories of all vehicles
in_histories(j) == sum_over([v \in DOMAIN fleet |-> occurrences(fleet[v].jobs, j)], DOMAIN fleet)

\* number of vehicles whose buffer holds job j
in_buffers(j) == Cardinality({v \in DOMAIN fleet : fleet[v].job_buffer = j})

\* C1: on the a_example data set, once run() has returned, output_as_str() is
\* "1 0\n2 1 2\n": vehicle 0 reports [0] and vehicle 1 reports [1, 2].
C1_ExampleOutput ==
    (IsExample /\ pc = "done") =>
        /\ output_as_str = "1 0\n2 1 2\n"
        /\ assigned_rides(fleet[0]) = <<0>>
        /\ assigned_rides(fleet[1]) = <<1, 2>>

\* C2: at the end of run(), an assigned job's score entry is strictly positive
\* exactly when its vehicle reached the job's end point at a tick strictly less
\* than latest_finish.
C2_ScoreIffOnTime ==
    pc = "done" =>
        \A j \in DOMAIN jobs :
            was_assigned(j) =>
                (job_scores[j] > 0 <=>
                    (arrive_tick[j] # NoTick /\ arrive_tick[j] < jobs[j].latest_end))

\* C3: at the end of run(), every vehicle reports exactly the jobs the dispatcher
\* queued on it, in that order, so that the reported jobs and the pending pool
\* together make up all jobs.
C3_ReportsAllQueued ==
    pc = "done" =>
        /\ \A v \in DOMAIN fleet : assigned_rides(fleet[v]) = queued[v]
        /\ sum_over([v \in DOMAIN fleet |-> Len(assigned_rides(fleet[v]))], DOMAIN fleet)
              + Len(rem_jobs) = Cardinality(DOMAIN jobs)

\* C4: run() never trips an assertion or unreachable!(), and a vehicle that was
\* never given a job stays at the origin without tasks, idle.
C4_NoPanic ==
    /\ pc # "panic"
    /\ \A v \in DOMAIN fleet :
          queued[v] = <<>> => (fleet[v] = Vehicle_new /\ is_idle(fleet[v]))

\* C5: in every state, a job id is recorded in at most one vehicle's history and
\* at most once in it.
C5_JobRecordedOnce == \A j \in DOMAIN jobs : in_histories(j) <= 1

\* C5 witness: two vehicles have a history, one of them with two jobs
C5_Witness ==
    \E v, w \in DOMAIN fleet :
        v # w /\ Len(fleet[v].jobs) >= 2 /\ Len(fleet[w].jobs) >= 1

\* places that hold job j: the pending pool, the buffers, the histories
placement(j) == occurrences(rem_jobs, j) + in_buffers(j) + in_histories(j)

\* C6: in every state between the steps of run() each job is in exactly one of
\* the pending pool, one vehicle's buffer, one vehicle's history; and a job
\* that has left the pool never returns to it.
C6_ExactlyOnePlace ==
    /\ [](\A j \in DOMAIN jobs : placement(j) = 1)
    /\ [][\A j \in DOMAIN jobs :
             occurrences(rem_jobs, j) = 0 => occurrences(rem_jobs', j) = 0]_vars

\* C6 witness: after a dispatch pass one job sits in a buffer and another in a history
C6_Witness ==
    /\ pc = "sim_loop"
    /\ \E j, k \in DOMAIN jobs : in_buffers(j) = 1 /\ in_histories(k) = 1

\* C7: for consecutive jobs a, b of a vehicle's history, the vehicle has reached
\* a's end point, and if it has departed on b it did so no earlier than that.
C7_FinishBeforeNext ==
    \A v \in DOMAIN fleet :
        \A k \in 1..(Len(fleet[v].jobs) - 1) :
            LET a == fleet[v].jobs[k]
                b == fleet[v].jobs[k + 1]
            IN  /\ arrive_tick[a] # NoTick
                /\ depart_tick[b] # NoTick => arrive_tick[a] <= depart_tick[b]

\* C7 witness: a vehicle has departed on the second job of its history
C7_Witness ==
    \E v \in DOMAIN fleet :
        Len(fleet[v].jobs) >= 2 /\ depart_tick[fleet[v].jobs[2]] # NoTick

\* the entry the claim expects for a job departed on at tick t
departure_score(j, t) ==
    IF t = jobs[j].earliest_start THEN -(Job_dist(jobs[j]) + ride_bonus)
    ELSE -Job_dist(jobs[j])

\* C8: once a vehicle has departed on a job, the job's score entry is
\* -(length + bonus) if it departed at earliest_start and -length otherwise
\* (with the sign flipped once the job completed on time).
C8_DepartureScore ==
    \A j \in DOMAIN jobs :
        depart_tick[j] # NoTick =>
            job_scores[j] \in {departure_score(j, depart_tick[j]),
                               -departure_score(j, depart_tick[j])}

\* a scan is about to start with a pending job and an idle vehicle of the tree,
\* and no pair of them passes the strict test
strict_stuck ==
    /\ pc = "funky_scheduling"
    /\ ~candidates_empty
    /\ job_hits(FALSE, FALSE) = {}

\* the step assigns a job: the pool loses one job, a buffer gains it
assigns == Len(rem_jobs') = Len(rem_jobs) - 1 /\ pc' = "funky_scheduling"

\* the step only relaxes: flags become rs, re and nothing is assigned
relaxes_to(rs, re) ==
    /\ relax_start' = rs /\ relax_end' = re
    /\ rem_jobs' = rem_jobs /\ fleet' = fleet /\ pc' = "funky_scheduling"

\* job j was assigned under relaxation and its vehicle reached the end too late
late_relaxed(j) ==
    /\ was_assigned(j)
    /\ assigned_at[j].relax_start
    /\ arrive_tick[j] # NoTick
    /\ arrive_tick[j] >= jobs[j].latest_end

C10_RunsAllTicks ==
    halted => (pc = "done" /\ current_step = max_tsteps - 1)

\* C11: for every job, JobStart is emitted on exactly the tick on which the
\* vehicle enters DrivingToEnd for it and on no other tick, whichever way
\* DrivingToEnd is entered (after waiting, on arrival, on loading the buffer).
C11_StartOnDeparture ==
    \A j \in DOMAIN jobs :
        start_events[j] = (IF depart_tick[j] = NoTick THEN {} ELSE {depart_tick[j]})

\* vehicle v is an entry of this tick's tree
in_tree(v) == \E i \in 1..Len(idle_vehicles) : idle_vehicles[i].v = v

\* job j has start = end and was loaded, at a tick >= earliest_start, by vehicle v
\* standing on that point; the load is the vehicle's tick after the assignment
same_point_loaded(j, v) ==
    /\ jobs[j].start = jobs[j].end
    /\ was_assigned(j)
    /\ assigned_at[j].v = v
    /\ assigned_at[j].dist = 0
    /\ assigned_at[j].tick + 1 >= jobs[j].earliest_start
    /\ occurrences(fleet[v].jobs, j) = 1

\* C12: a job whose start and end are the vehicle's position, loaded at a tick
\* >= earliest_start, completes at once: that tick emits JobComplete for it, the
\* vehicle is idle afterwards and is in that tick's tree.
C12_SamePointCompletes ==
    \A j \in DOMAIN jobs : \A v \in DOMAIN fleet :
        (same_point_loaded(j, v) /\ current_step = assigned_at[j].tick + 1) =>
            /\ current_step \in complete_events[j]
            /\ (is_idle(fleet[v]) \/ fleet[v].job_buffer # NoJob)
            /\ in_tree(v)

\* the job the i-th task of veh's stack belongs to: every job ends with one
\* DrivingToEnd task
task_job(veh, i) ==
    veh.jobs[1 + Cardinality({k \in 1..(i - 1) : veh.ride_tasks[k].task_type = "DrivingToEnd"})]

\* C13: a WaitingAtStart task that has run out did so at the job's earliest_start
\* and is followed, in the same tick, by the job's DrivingToEnd task, never by
\* another WaitingAtStart task; whether it was created on arrival or at buffer load.
C13_WaitEndsAtEarliest ==
    \A v \in DOMAIN fleet :
        \A i \in 1..Len(fleet[v].ride_tasks) :
            LET t == fleet[v].ride_tasks[i]
                j == task_job(fleet[v], i)
            IN  (t.task_type = "WaitingAtStart" /\ t.rem_steps = 0) =>
                    /\ i < Len(fleet[v].ride_tasks)
                    /\ fleet[v].ride_tasks[i + 1].task_type = "DrivingToEnd"
                    /\ depart_tick[j] = jobs[j].earliest_start

\* vehicle veh has an empty buffer and no unfinished task
free(veh) ==
    /\ veh.job_buffer = NoJob
    /\ \/ veh.ride_tasks = <<>>
       \/ (Last(veh.ride_tasks).task_type = "DrivingToEnd" /\ Last(veh.ride_tasks).rem_steps = 0)

\* C14: the dispatcher queues a job only on a vehicle whose buffer is empty and
\* that has no unfinished task, so queue_new_job's assertion holds, and the jobs
\* queued on one vehicle were queued in different dispatch passes.
C14_QueuesOnIdleOnly ==
    /\ [][\A v \in DOMAIN fleet :
             (fleet'[v].job_buffer # fleet[v].job_buffer /\ fleet'[v].job_buffer # NoJob)
                 => free(fleet[v])]_vars
    /\ [](\A v \in DOMAIN fleet :
             \A k, l \in 1..Len(queued[v]) :
                 k < l => assigned_at[queued[v][k]].tick < assigned_at[queued[v][l]].tick)

\* C14 witness: a pass goes on with jobs pending while a vehicle of the tree
\* already holds the job this pass gave it
C14_Witness ==
    /\ pc = "funky_scheduling"
    /\ rem_jobs # <<>>
    /\ \E v \in DOMAIN fleet :
          in_tree(v) /\ fleet[v].job_buffer # NoJob /\ assigned_at[fleet[v].job_buffer].tick = current_step

\* number of relaxation flags that are set
flags_set(rs, re) == (IF rs THEN 1 ELSE 0) + (IF re THEN 1 ELSE 0)

\* the step is a scan that neither assigns a job nor ends the pass
scan_in_vain == pc = "funky_scheduling" /\ rem_jobs' = rem_jobs /\ pc' # "sim_loop"

\* C15: no scan of the dispatcher ends in unreachable!(); a scan that neither
\* assigns nor ends the pass sets one more flag, and a scan that starts with both
\* flags set assigns a job: at most two scans in a row end without assignment.
C15_NoUnreachable ==
    /\ [][pc = "funky_scheduling" => pc' # "panic"]_vars
    /\ [][scan_in_vain =>
            flags_set(relax_start', relax_end') = flags_set(relax_start, relax_end) + 1]_vars
    /\ [][(pc = "funky_scheduling" /\ relax_start /\ relax_end) => assigns]_vars

\* C15 witness: two scans in a row have ended without assignment and the third
\* is about to start with a job pending and an idle vehicle in the tree
C15_Witness ==
    pc = "funky_scheduling" /\ relax_start /\ relax_end /\ ~candidates_empty

\* pending job j and vehicle v, idle and in the tree, pass both strict tests
strict_pair(j, v) ==
    /\ in_tree(v)
    /\ free(fleet[v])
    /\ current_step + manhattan_dist(current_pos(fleet[v]), jobs[j].start)
          + manhattan_dist(jobs[j].start, jobs[j].end) < jobs[j].latest_end
    /\ current_step + manhattan_dist(current_pos(fleet[v]), jobs[j].start)
          < jobs[j].earliest_start

\* C16: an assignment made while a flag is set happens only when no pending job
\* and idle vehicle of the tree pass both strict tests; both flags are false
\* right after every assignment; relax_end is never set without relax_start.
C16_RelaxOnlyWhenStuck ==
    /\ [][(assigns /\ (relax_start \/ relax_end)) =>
            ~ \E idx \in 1..Len(rem_jobs), v \in DOMAIN fleet :
                  strict_pair(rem_jobs[idx], v)]_vars
    /\ [][assigns => (~relax_start' /\ ~relax_end')]_vars
    /\ [](relax_end => relax_start)

\* C16 witness: a job assigned under relax_start alone sits in a vehicle's buffer
\* while the same pass, flags reset, goes on with another job pending
C16_Witness ==
    /\ pc = "funky_scheduling"
    /\ ~relax_start /\ ~relax_end
    /\ rem_jobs # <<>>
    /\ \E j \in DOMAIN jobs :
          /\ was_assigned(j)
          /\ assigned_at[j].tick = current_step
          /\ assigned_at[j].relax_start /\ ~assigned_at[j].relax_end
          /\ in_buffers(j) = 1

\* Manhattan distance from vehicle v to the start of job j
to_start(v, j) == manhattan_dist(current_pos(fleet[v]), jobs[j].start)

\* vehicle v, idle and in the tree, passes the test for job j under the flags
\* relax_start, relax_end as they are
candidate_ok(j, v) ==
    /\ in_tree(v)
    /\ free(fleet[v])
    /\ (relax_end \/ current_step + to_start(v, j)
                        + manhattan_dist(jobs[j].start, jobs[j].end) < jobs[j].latest_end)
    /\ (relax_start \/ current_step + to_start(v, j) < jobs[j].earliest_start)

\* job k comes before job j in ascending (earliest_start, id) order
comes_before(k, j) ==
    \/ jobs[k].earliest_start < jobs[j].earliest_start
    \/ (jobs[k].earliest_start = jobs[j].earliest_start /\ k < j)

\* C17: an assignment takes the first pending job, in ascending (earliest_start,
\* id) order, that has a feasible idle candidate under the current flags, and
\* gives it to one of its feasible idle candidates nearest to its start.
C17_FirstJobNearestVehicle ==
    [][assigns =>
         \E idx \in 1..Len(rem_jobs), v \in DOMAIN fleet :
             LET j == rem_jobs[idx] IN
             /\ occurrences(rem_jobs', j) = 0
             /\ fleet[v].job_buffer = NoJob /\ fleet'[v].job_buffer = j
             /\ candidate_ok(j, v)
             /\ \A w \in DOMAIN fleet : candidate_ok(j, w) => to_start(v, j) <= to_start(w, j)
             /\ \A i \in 1..Len(rem_jobs) :
                    comes_before(rem_jobs[i], j) =>
                        ~ \E w \in DOMAIN fleet : candidate_ok(rem_jobs[i], w)]_vars

\* C17 witness: a job was assigned this tick, under relax_start, to the nearer
\* of two idle vehicles of the tree that both pass the finish test, while a job
\* that comes before it in the order is still pending
C17_Witness ==
    /\ pc = "funky_scheduling"
    /\ \E j \in DOMAIN jobs :
          /\ was_assigned(j) /\ assigned_at[j].tick = current_step
          /\ assigned_at[j].relax_start
          /\ \E i \in 1..Len(rem_jobs) : comes_before(rem_jobs[i], j)
          /\ \E w \in DOMAIN fleet :
                /\ w # assigned_at[j].v
                /\ in_tree(w) /\ free(fleet[w])
                /\ to_start(w, j) > assigned_at[j].dist
                /\ current_step + to_start(w, j)
                      + manhattan_dist(jobs[j].start, jobs[j].end) < jobs[j].latest_end

\* the dispatch pass of the current tick is over
pass_over == pc \in {"sim_loop", "done"} /\ current_step >= 1

\* C18: after a dispatch pass it is never the case that a job is pending and a
\* vehicle of that tick's tree is idle: the pass stops only when the pool is
\* empty or no vehicle of the tree is idle.
C18_PassRunsDry ==
    pass_over =>
        \/ rem_jobs = <<>>
        \/ \A v \in DOMAIN fleet : in_tree(v) => ~free(fleet[v])

\* C18 witness: a pass has ended with a job pending, after giving a job to a
\* vehicle of the tree
C18_Witness ==
    /\ pass_over
    /\ rem_jobs # <<>>
    /\ \E v \in DOMAIN fleet :
          /\ in_tree(v)
          /\ fleet[v].job_buffer # NoJob
          /\ assigned_at[fleet[v].job_buffer].tick = current_step

\* tick_vehicles has gone through the fleet: the tree is handed to the dispatcher
tree_ready == pc = "tick_vehicles" /\ next_v = num_vehicles

\* C19: the tree handed to the dispatcher at a tick holds every vehicle that is
\* idle after the vehicle-tick phase, at its current position; so a vehicle that
\* became idle earlier and got no job is in the tree of each later tick.
C19_TreeHoldsAllIdle ==
    tree_ready =>
        \A v \in DOMAIN fleet :
            is_idle(fleet[v]) =>
                \E i \in 1..Len(idle_vehicles) :
                    idle_vehicles[i] = [v |-> v, coord |-> current_pos(fleet[v])]

Max(a, b) == IF a >= b THEN a ELSE b

\* job j was assigned while relax_end was false
end_checked(j) == was_assigned(j) /\ ~assigned_at[j].relax_end

ticks_seen(v) == IF pc = "tick_vehicles" /\ v >= next_v THEN current_step - 1 ELSE current_step

\* every DrivingToStart task counts down to the tick assignment tick + distance:
\* the vehicle reaches the start at that tick
start_reached_on_time ==
    \A v \in DOMAIN fleet :
        \A i \in 1..Len(fleet[v].ride_tasks) :
            LET t == fleet[v].ride_tasks[i]
                j == task_job(fleet[v], i)
            IN  t.task_type = "DrivingToStart" =>
                    /\ assigned_at[j].dist > 0
                    /\ t.rem_steps = Max(0, assigned_at[j].tick + assigned_at[j].dist
                                              - ticks_seen(v))

\* the DrivingToEnd task of job j was created by loading the buffer
departed_at_load(j) ==
    assigned_at[j].dist = 0 /\ depart_tick[j] = assigned_at[j].tick + 1

C22_NoEarlyDeparture ==
    \A j \in DOMAIN jobs :
        depart_tick[j] # NoTick => depart_tick[j] >= jobs[j].earliest_start

\* C22 witness: a job whose vehicle stood on the start before earliest_start
\* was departed on, and so was a job assigned under relax_start
C22_Witness ==
    \E j, k \in DOMAIN jobs :
        /\ depart_tick[j] # NoTick
        /\ assigned_at[j].tick + assigned_at[j].dist < jobs[j].earliest_start
        /\ depart_tick[k] # NoTick
        /\ assigned_at[k].relax_start

====
